---- MODULE Spec2Model ----
(***************************************************************************)
(* The document-to-ledger pipeline of akountoServer:                       *)
(*   src/src/services/processDocuments/index.js  (processDocument,         *)
(*       processReceiptDocument, createInvoice, createReceipt)             *)
(*   src/unnamed/part_001  (quickbooksApiClient: invoices, customers,      *)
(*       vendors, expenses)                                                *)
(* Every await of a pipeline run is one step of that run; runs of          *)
(* different documents interleave at their awaits.                         *)
(***************************************************************************)
EXTENDS Integers, FiniteSets, Sequences, TLC

(* ------------------------------ bounds --------------------------------- *)
NumDocs == 2
MaxRuns == 2
NumNames == 1
MaxItems == 1
MaxLines == 2
MaxValue == 4
MaxLen == 22
NumTenants == 2
MaxCalls == 2

Docs == 1..NumDocs
Names == 1..NumNames
Tenants == 1..NumTenants

(* ------------------------- values and errors --------------------------- *)
\* JavaScript's undefined, as read from a property the value does not have
Undefined == "undefined"
Null == "null"

NoError == [type |-> "none", text |-> "", fault |-> "none"]
\* new Error(msg): an object with a message and no fault
ErrorObj(msg) == [type |-> "Error", text |-> msg, fault |-> "none"]
\* throw "some text": a bare string, which has neither .message nor .fault
ThrownString(s) == [type |-> "string", text |-> s, fault |-> "none"]
\* the accounting platform's rejection as the OAuth client raises it
PlatformDetail == "platform detail"
PlatformError(kind) == [type |-> "Error", text |-> "request failed", fault |-> kind]

DbError == ErrorObj("database error")
StorageError == ErrorObj("storage error")
ExtractionError == ErrorObj("extraction error")
IntegrationMissing ==
    ErrorObj("No active QuickBooks integration found. Please connect to QuickBooks first.")
\* createInvoice: catch (error) { ...; throw new Error("Failed to create or find
\* customer in QuickBooks"); } around findByName, customers.create, EntityMapping.create
CreateInvoiceCatch_Rethrow(error) == error
CreateInvoiceCatch(error) == ErrorObj("Failed to create or find customer in QuickBooks")
CustomerMappingNotFound == ErrorObj("Customer mapping not found")
VendorEntityNull == ErrorObj("Cannot read properties of null (reading 'external_id')")

\* error.message and error.fault as the handlers read them
MessageOf(e) == IF e.type = "Error" THEN e.text ELSE Undefined
FaultOf(e) == IF e.type = "Error" THEN e.fault ELSE Undefined

(* ----------------------- the API client's catches ---------------------- *)
\* invoices.create: catch (error) { ...; throw "failed to create invoice"; }
InvoicesCreateCatch(error) == ThrownString("failed to create invoice")
\* customers.create: catch (error) { ...; throw "failed to create customer"; }
CustomersCreateCatch(error) == ThrownString("failed to create customer")
\* vendors.create: catch (error) { ...; throw "failed to create vendor"; }
VendorsCreateCatch(error) == ThrownString("failed to create vendor")
\* expenses.create: catch (error) { ...; throw "failed to create expense"; }
ExpensesCreateCatch(error) == ThrownString("failed to create expense")
\* customers.findByName: catch (error) { console.error(...); throw error; }
FindByNameCatch(error) == error

VARIABLES
    kind,          \* per document: which pipeline its caller runs on it
    status,        \* Document.status
    errorMessage,  \* Document.error_message
    paths,         \* Document.processed_image_file_paths: the run whose files it holds
    pending,       \* per document: Document writes started and not awaited
    integration,   \* whether the tenant has an Integration with status "Connected"
    customers,     \* local Customer rows
    vendors,       \* local Vendor rows
    invoices,      \* local Invoice rows
    purchases,     \* local Purchase rows
    lineItems,     \* local InvoiceLineItem / PurchaseLineItem rows
    mappings,      \* EntityMapping rows
    qbCustomers,   \* the platform's customers
    qbVendors,     \* the platform's vendors
    qbInvoices,    \* the platform's invoices
    qbExpenses,    \* the platform's purchases
    run,           \* per document: its current (or last) pipeline run
    prev,          \* per document: what the run before the current one left
    runs,          \* per document: runs started so far
    processedJson, \* transformInvoiceForQuickBooks: the extraction it is called with
    transformedInvoiceData,  \* transformInvoiceForQuickBooks: what it returned
    invoiceData,   \* validateInvoiceData: the payload it is called with
    verdict,       \* validateInvoiceData: what it collected, and whether it threw
    installed,     \* the token held by the module-level oauthClient
    credentials,   \* per integration: Integration.credentials as persisted
    expired,       \* the access tokens that have run out
    client         \* per tenant: its quickbooksApiClient and the API call it is in

vars == <<kind, status, errorMessage, paths, pending, integration, customers, vendors,
          invoices, purchases, lineItems, mappings, qbCustomers, qbVendors, qbInvoices,
          qbExpenses, run, prev, runs, processedJson,
          transformedInvoiceData, invoiceData, verdict, installed, credentials, expired,
          client>>

docVars == <<status, errorMessage, paths, pending>>
localVars == <<customers, vendors, invoices, purchases, lineItems>>
qbVars == <<qbCustomers, qbVendors, qbInvoices, qbExpenses>>
fnVars == <<processedJson, transformedInvoiceData, invoiceData, verdict>>
\* the state of the pipeline: what a call of the transformer or the validator on its
\* own leaves alone
pipelineVars == <<kind, status, errorMessage, paths, pending, integration, customers,
                  vendors, invoices, purchases, lineItems, mappings, qbCustomers,
                  qbVendors, qbInvoices, qbExpenses, run, prev, runs>>
\* what no step of a pipeline run touches
tokenVars == <<installed, credentials, expired, client>>
aside == <<fnVars, tokenVars>>

Kinds == {"invoice", "receipt"}
EntityTypeOf(k) == IF k = "invoice" THEN "Customer" ELSE "Vendor"
\* the entity_type of processDocument's mapping used by both pipelines
TxnTypeOf_AlwaysInvoice(k) == "Invoice"
TxnTypeOf(k) == IF k = "invoice" THEN "Invoice" ELSE "Receipt"

IdleRun ==
    [pc |-> "idle", result |-> "none", thrown |-> NoError, at |-> "none",
     name |-> 0, nItems |-> 0, localId |-> 0, txnId |-> 0, i |-> 0,
     extId |-> 0, ref |-> 0, err |-> NoError, raw |-> "none",
     mapLookup |-> "none", nameLookup |-> "none", entCreate |-> FALSE,
     validated |-> FALSE, txnIssued |-> FALSE, invalid |-> FALSE, refRid |-> 0,
     marked |-> FALSE, mapped |-> FALSE]

NoPrev == [result |-> "none", thrown |-> NoError, name |-> 0, localId |-> 0,
           anyReturned |-> FALSE]

\* a function that has not been called
NotCalled == {}

\* the pipelines at rest: no Document processed yet
PipelineInit ==
    /\ kind \in [Docs -> Kinds]
    /\ status = [d \in Docs |-> "New"]
    /\ errorMessage = [d \in Docs |-> Null]
    /\ paths = [d \in Docs |-> 0]
    /\ pending = [d \in Docs |-> {}]
    /\ integration \in BOOLEAN
    /\ customers = {}
    /\ vendors = {}
    /\ invoices = {}
    /\ purchases = {}
    /\ lineItems = {}
    /\ mappings = {}
    /\ qbCustomers = {}
    /\ qbVendors = {}
    /\ qbInvoices = {}
    /\ qbExpenses = {}
    /\ run = [d \in Docs |-> IdleRun]
    /\ prev = [d \in Docs |-> NoPrev]
    /\ runs = [d \in Docs |-> 0]

FnIdle ==
    /\ processedJson = NotCalled
    /\ transformedInvoiceData = NotCalled
    /\ invoiceData = NotCalled
    /\ verdict = NotCalled

\* an oauthClient on which setToken was never called, and a client never constructed
NoToken == [realm |-> 0, gen |-> 0]
NoConfig == [realmId |-> 0, token |-> NoToken]
IdleClient ==
    [pc |-> "idle", integrationId |-> 0, config |-> NoConfig, isValid |-> FALSE,
     fresh |-> NoToken, calls |-> 0,
     \* of the last call: whether the client's token, the one persisted, had run out when
     \* the call began, whether a refresh was asked for, and the token the request bore
     ownExpired |-> FALSE, refreshed |-> FALSE, sentWith |-> NoToken]
\* the process just started: every tenant connected with its first token, realm t for
\* the integration of id t
TokenIdle ==
    /\ installed = NoToken
    /\ credentials = [t \in Tenants |-> [realmId |-> t, token |-> [realm |-> t, gen |-> 1]]]
    /\ expired = {}
    /\ client = [t \in Tenants |-> IdleClient]

Init == PipelineInit /\ FnIdle /\ TokenIdle

(* ------------------------------ helpers -------------------------------- *)
\* findOrCreate without its find: a row is inserted on every call
AlwaysCreate(table, name) == table \cup {[id |-> Cardinality(table) + 1, name |-> name]}
\* Model.findOrCreate({where: {name, CompanyId}}): the row of that name, created on a miss
FindOrCreate(table, name) ==
    IF \E r \in table : r.name = name
    THEN table
    ELSE table \cup {[id |-> Cardinality(table) + 1, name |-> name]}

RowOf(table, name) == CHOOSE r \in table : r.name = name

\* EntityMapping.findOne({where: {entity_type, local_id}}): the rows it may return
MappingsFor(type, localId) ==
    {m \in mappings : m.entity_type = type /\ m.local_id = localId}

\* EntityMapping.create with the local id written where the external id belongs
MappingCreate_LocalIdAsExternal(type, localId, externalId) ==
    mappings \cup {[rid |-> Cardinality(mappings) + 1, entity_type |-> type,
                    local_id |-> localId, external_id |-> localId]}
\* EntityMapping.create({...}): a strict insert
MappingCreate(type, localId, externalId) ==
    mappings \cup {[rid |-> Cardinality(mappings) + 1, entity_type |-> type,
                    local_id |-> localId, external_id |-> externalId]}

\* the run of document d ends by raising e, first raised at step `at`
Raise(d, e, at) ==
    run' = [run EXCEPT ![d] = [@ EXCEPT !.pc = "idle", !.result = "raised",
                                        !.thrown = e, !.at = at]]
\* the run of document d returns to its caller
Return(d) ==
    run' = [run EXCEPT ![d] = [@ EXCEPT !.pc = "idle", !.result = "returned"]]
Goto(d, p) == run' = [run EXCEPT ![d] = [@ EXCEPT !.pc = p]]

\* the same step with the validateInvoiceData call left out
AfterCustomerRef_NoValidation(valid) == [pc |-> "integration2", validated |-> FALSE]
\* processDocument: after CustomerRef is set, validateInvoiceData decides what follows
AfterCustomerRef(valid) ==
    IF valid THEN [pc |-> "integration2", validated |-> TRUE]
             ELSE [pc |-> "validationFailed", validated |-> FALSE]

\* a property of a JavaScript object that may be absent: {} or {value}
Absent == {}
Some(x) == {x}

\* the value of a property that is present
ValueOf(x) == CHOOSE v \in x : TRUE
\* `x || dflt` for a number x: an absent (undefined, null) x and 0 give dflt
OrElse(x, dflt) == IF x = Absent \/ x = Some(0) THEN dflt ELSE ValueOf(x)
\* `x || ""` for a string x, a string being the sequence of its characters
OrEmpty(x) == IF x = Absent THEN <<>> ELSE ValueOf(x)
\* s.slice(-n) for n > 0: from index max(length - n, 0) to the end
SliceLast(s, n) ==
    LET start == IF Len(s) - n > 0 THEN Len(s) - n ELSE 0
    IN  SubSeq(s, start + 1, Len(s))
\* the 20 of `.slice(-20)`
DocNumberLength == 20

\* transformInvoiceForQuickBooks, the callback of Items.map: amounts are whole
\* hundredths, Description stands for the rest of the item and tells the items apart
SalesLine(item) ==
    LET quantity == OrElse(item.Quantity, 1)
        unitPrice == OrElse(item.UnitPrice, OrElse(item.TotalAmount, 0))
        amount == OrElse(item.TotalAmount, quantity * unitPrice)
    IN  [DetailType |-> "SalesItemLineDetail", Description |-> item.Description,
         Amount |-> Some(amount), Qty |-> Some(quantity),
         UnitPrice |-> Some(unitPrice), PercentBased |-> Absent]

\* the discount line put before the sales lines
LinesOf_DiscountFirst(json) ==
    [k \in 1..(Len(json.Items) + 1) |->
        IF k > 1 THEN SalesLine(json.Items[k - 1])
        ELSE [DetailType |-> "DiscountLineDetail", Description |-> 0,
              Amount |-> Some(OrElse(json.DiscountTotal, 0)), Qty |-> Absent,
              UnitPrice |-> Absent, PercentBased |-> Some(FALSE)]]
\* Line: [...lines, {DetailType: "DiscountLineDetail", Amount: DiscountTotal || 0, ...}]
LinesOf(json) ==
    [k \in 1..(Len(json.Items) + 1) |->
        IF k <= Len(json.Items) THEN SalesLine(json.Items[k])
        ELSE [DetailType |-> "DiscountLineDetail", Description |-> 0,
              Amount |-> Some(OrElse(json.DiscountTotal, 0)), Qty |-> Absent,
              UnitPrice |-> Absent, PercentBased |-> Some(FALSE)]]

\* DocNumber cut to the first 20 characters
DocNumberOf_Prefix(json) ==
    SubSeq(OrEmpty(json.InvoiceNumber), 1,
           IF Len(OrEmpty(json.InvoiceNumber)) < DocNumberLength
           THEN Len(OrEmpty(json.InvoiceNumber)) ELSE DocNumberLength)
\* DocNumber: (processedJson.InvoiceNumber || "").slice(-20)
DocNumberOf(json) == SliceLast(OrEmpty(json.InvoiceNumber), DocNumberLength)

\* transformInvoiceForQuickBooks(processedJson), the fields read downstream: it sets
\* no CustomerRef
TransformInvoiceForQuickBooks(json) ==
    [Line |-> Some(LinesOf(json)), CustomerRef |-> Absent, DocNumber |-> DocNumberOf(json)]

\* an extraction of n items of which nothing but their order is known
ExtractionOf(n) ==
    [Items |-> [i \in 1..n |-> [Description |-> i, Quantity |-> Absent,
                                UnitPrice |-> Absent, TotalAmount |-> Absent]],
     DiscountTotal |-> Absent, InvoiceNumber |-> Absent]
\* the payload processDocument builds from the extraction of a run
TransformInvoice(nItems) == TransformInvoiceForQuickBooks(ExtractionOf(nItems))

\* the 0.01 of `Math.abs(calculatedAmount - amount) > 0.01`, in hundredths
Tolerance == 1
Abs(x) == IF x < 0 THEN 0 - x ELSE x

\* validateInvoiceData, the loop over requiredFields: a field that is absent is
\* reported (an object and an array, even an empty one, are truthy)
FieldErrors(p) ==
    (IF p.CustomerRef = Absent THEN <<"Missing required field: CustomerRef">> ELSE <<>>)
    \o (IF p.Line = Absent THEN <<"Missing required field: Line">> ELSE <<>>)
\* validateInvoiceData, what the callback of Line.forEach reads of a sales line:
\* amount = line.Amount || 0, qty = Qty || 1, unitPrice = UnitPrice || amount
LineAmount(line) == Some(OrElse(line.Amount, 0))
LineQty(line) == OrElse(line.Qty, 1)
LineUnitPrice(line) == OrElse(line.UnitPrice, ValueOf(LineAmount(line)))
\* the error of line k (index k - 1): `amount === undefined || amount === null`
LineError(line, k) ==
    IF line.DetailType = "SalesItemLineDetail" /\ LineAmount(line) = Absent
    THEN <<"Line item " \o ToString(k - 1) \o ": Missing Amount">>
    ELSE <<>>
RECURSIVE LineErrors(_, _)
LineErrors(lines, k) ==
    IF k > Len(lines) THEN <<>> ELSE LineError(lines[k], k) \o LineErrors(lines, k + 1)
\* binary64, as JavaScript computes: the pairs of amounts of at most 8 hundredths, one
\* hundredth apart, whose difference as doubles is above the double 0.01
\* (0.04 - 0.03 is 0.010000000000000002, 0.02 - 0.01 is 0.01)
RoundedAboveTolerance == {{3, 4}, {4, 5}, {6, 7}}
\* Math.abs(calculatedAmount - amount) > 0.01 on hundredths kept as doubles
ExceedsTolerance(calculatedAmount, amount) ==
    \/ Abs(calculatedAmount - amount) > Tolerance
    \/ {calculatedAmount, amount} \in RoundedAboveTolerance
\* the warning of a line: `if (qty && unitPrice)` and the difference above 0.01
LineWarns(line) ==
    /\ line.DetailType = "SalesItemLineDetail"
    /\ LineQty(line) # 0 /\ LineUnitPrice(line) # 0
    /\ ExceedsTolerance(LineQty(line) * LineUnitPrice(line), ValueOf(LineAmount(line)))
\* the indexes console.warn names
ValidationWarnings(p) ==
    IF p.Line = Absent THEN {}
    ELSE {k - 1 : k \in {j \in 1..Len(ValueOf(p.Line)) : LineWarns(ValueOf(p.Line)[j])}}

\* validateInvoiceData: the errors array when the function reaches its last test
ValidationErrors(p) ==
    FieldErrors(p)
      \o (IF p.Line # Absent THEN LineErrors(ValueOf(p.Line), 1)
          ELSE <<"Missing or invalid Line items array">>)
ValidateInvoiceData(p) == ValidationErrors(p) = <<>>

\* errors.join(", ")
RECURSIVE Join(_)
Join(errs) ==
    IF errs = <<>> THEN ""
    ELSE IF Len(errs) = 1 THEN errs[1]
    ELSE errs[1] \o ", " \o Join(Tail(errs))
\* the message without the reasons joined to it
ValidationMessage_NoReasons(errs) == "Invoice validation failed"
\* the message of the Error it throws: "Invoice validation failed: " + errors.join(", ")
ValidationMessage(errs) == "Invoice validation failed: " \o Join(errs)
InvoiceValidationError(p) == ErrorObj(ValidationMessage(ValidationErrors(p)))
\* the payload validated as the transformer returned it, no CustomerRef set
InjectCustomerRef_Skipped(transformed, entity) == transformed
\* CustomerRef written with the local id of the mapping instead of its external id
InjectCustomerRef_LocalId(transformed, entity) ==
    [transformed EXCEPT !.CustomerRef = Some([value |-> entity.local_id])]
\* transformedInvoiceData.CustomerRef = {value: entity.external_id}
InjectCustomerRef(transformed, entity) ==
    [transformed EXCEPT !.CustomerRef = Some([value |-> entity.external_id])]
\* the reference a payload carries
RefOf(payload) == (CHOOSE c \in payload.CustomerRef : TRUE).value

(* ------------------------------ the caller ----------------------------- *)
\* pipeline runs started so far, over the documents of S
RECURSIVE TotalRuns(_)
TotalRuns(S) ==
    IF S = {} THEN 0
    ELSE LET d == CHOOSE x \in S : TRUE IN runs[d] + TotalRuns(S \ {d})

\* a run that goes to processFile without the write of "Extraction"
FirstStep_NoStatusWrite == "processFile"
\* the first step of a run after Document.findByPk: the write of "Extraction"
FirstStep == "markExtraction"

\* processDocument(document) / processReceiptDocument(document) is called;
\* Document.findByPk is its first await
Start(d) ==
    /\ run[d].pc = "idle"
    /\ TotalRuns(Docs) < MaxRuns
    /\ runs' = [runs EXCEPT ![d] = @ + 1]
    /\ prev' = [prev EXCEPT ![d] =
                  [result |-> run[d].result, thrown |-> run[d].thrown,
                   name |-> run[d].name, localId |-> run[d].localId,
                   anyReturned |-> @.anyReturned \/ run[d].result = "returned"]]
    /\ run' = [run EXCEPT ![d] = [IdleRun EXCEPT !.pc = FirstStep]]
    /\ UNCHANGED <<kind, aside, docVars, integration, localVars, mappings, qbVars>>

\* await documentData.update({status: "Extraction"})
MarkExtraction(d) ==
    /\ run[d].pc = "markExtraction"
    /\ \E ok \in BOOLEAN :
          IF ok
          THEN /\ status' = [status EXCEPT ![d] = "Extraction"]
               /\ run' = [run EXCEPT ![d] = [@ EXCEPT !.pc = "processFile",
                                                       !.marked = TRUE]]
          ELSE /\ Raise(d, DbError, "markExtraction")
               /\ UNCHANGED status
    /\ UNCHANGED <<kind, aside, errorMessage, paths, pending, integration, localVars, mappings,
                   qbVars, prev, runs>>

\* await processFile(document.file_path); processReceiptDocument then starts the
\* write of processed_image_file_paths without awaiting it
ProcessFile(d) ==
    /\ run[d].pc = "processFile"
    /\ \E ok \in BOOLEAN :
          IF ~ok
          THEN /\ Raise(d, StorageError, "processFile")
               /\ UNCHANGED pending
          ELSE IF kind[d] = "invoice"
          THEN /\ Goto(d, "savePaths")
               /\ UNCHANGED pending
          ELSE /\ pending' = [pending EXCEPT ![d] =
                                @ \cup {[field |-> "paths", status |-> "", run |-> runs[d]]}]
               /\ Goto(d, "extract")
    /\ UNCHANGED <<kind, aside, status, errorMessage, paths, integration, localVars, mappings,
                   qbVars, prev, runs>>

\* processDocument: await documentData.update({processed_image_file_paths})
SavePaths(d) ==
    /\ run[d].pc = "savePaths"
    /\ \E ok \in BOOLEAN :
          IF ok
          THEN /\ paths' = [paths EXCEPT ![d] = runs[d]]
               /\ Goto(d, "extract")
          ELSE /\ Raise(d, DbError, "savePaths")
               /\ UNCHANGED paths
    /\ UNCHANGED <<kind, aside, status, errorMessage, pending, integration, localVars, mappings,
                   qbVars, prev, runs>>

\* await aiService.processDocument(processedFiles, schema): the extraction names a
\* customer (or vendor) and some items
Extract(d) ==
    /\ run[d].pc = "extract"
    /\ \E ok \in BOOLEAN, n \in Names, k \in 0..MaxItems :
          IF ok
          THEN run' = [run EXCEPT ![d] = [@ EXCEPT !.pc = "findOrCreate",
                                                   !.name = n, !.nItems = k]]
          ELSE Raise(d, ExtractionError, "extract")
    /\ UNCHANGED <<kind, aside, docVars, integration, localVars, mappings, qbVars, prev, runs>>

(* ------------------------ createInvoice / createReceipt ----------------- *)
\* await Customer.findOrCreate(...) / await Vendor.findOrCreate(...)
FindOrCreateEntity(d) ==
    /\ run[d].pc = "findOrCreate"
    /\ \E ok \in BOOLEAN :
          IF ~ok
          THEN /\ Raise(d, DbError, "findOrCreate")
               /\ UNCHANGED <<customers, vendors>>
          ELSE IF kind[d] = "invoice"
          THEN /\ customers' = FindOrCreate(customers, run[d].name)
               /\ run' = [run EXCEPT ![d] = [@ EXCEPT !.pc = "integration1",
                             !.localId = RowOf(customers', run[d].name).id]]
               /\ UNCHANGED vendors
          ELSE /\ vendors' = FindOrCreate(vendors, run[d].name)
               /\ run' = [run EXCEPT ![d] = [@ EXCEPT !.pc = "integration1",
                             !.localId = RowOf(vendors', run[d].name).id]]
               /\ UNCHANGED customers
    /\ UNCHANGED <<kind, aside, docVars, integration, invoices, purchases, lineItems, mappings,
                   qbVars, prev, runs>>

\* await Integration.findOne({where: {CompanyId, status: "Connected"}});
\* if (!integration) throw new Error("No active QuickBooks integration found...")
Integration1(d) ==
    /\ run[d].pc = "integration1"
    /\ IF integration
       THEN Goto(d, "mapLookup")
       ELSE Raise(d, IntegrationMissing, "integration1")
    /\ UNCHANGED <<kind, aside, docVars, integration, localVars, mappings, qbVars, prev, runs>>

\* let entity = await EntityMapping.findOne({where: {entity_type, local_id}});
\* on a miss createInvoice goes to customers.findByName, createReceipt to vendors.create
MapLookup(d) ==
    /\ run[d].pc = "mapLookup"
    /\ IF MappingsFor(EntityTypeOf(kind[d]), run[d].localId) # {}
       THEN run' = [run EXCEPT ![d] = [@ EXCEPT !.pc = "txnCreate", !.mapLookup = "hit"]]
       ELSE run' = [run EXCEPT ![d] = [@ EXCEPT !.mapLookup = "miss",
                       !.pc = IF kind[d] = "invoice" THEN "findByName" ELSE "entityCreate"]]
    /\ UNCHANGED <<kind, aside, docVars, integration, localVars, mappings, qbVars, prev, runs>>

\* createInvoice: await quickbooksApi.customers.findByName(CustomerDetails.CompanyName);
\* a failure is caught at line 453 and replaced
FindByName(d) ==
    /\ run[d].pc = "findByName"
    /\ \E ok \in BOOLEAN :
          IF ~ok
          THEN Raise(d, CreateInvoiceCatch(FindByNameCatch(PlatformError("none"))),
                     "findByName")
          ELSE LET found == {c \in qbCustomers : c.name = run[d].name}
               IN  IF found # {}
                   THEN \E c \in found :
                          run' = [run EXCEPT ![d] = [@ EXCEPT !.pc = "mapCreate",
                                        !.nameLookup = "hit", !.extId = c.Id]]
                   ELSE run' = [run EXCEPT ![d] = [@ EXCEPT !.pc = "entityCreate",
                                        !.nameLookup = "miss"]]
    /\ UNCHANGED <<kind, aside, docVars, integration, localVars, mappings, qbVars, prev, runs>>

\* await quickbooksApi.customers.create({...}) / await quickbooksApi.vendors.create({...})
EntityCreate(d) ==
    /\ run[d].pc = "entityCreate"
    /\ \E ok \in BOOLEAN :
       /\ IF kind[d] = "invoice"
             THEN /\ UNCHANGED qbVendors
                  /\ IF ok
                     THEN /\ qbCustomers' = qbCustomers \cup
                                {[Id |-> Cardinality(qbCustomers) + 1, name |-> run[d].name]}
                          /\ run' = [run EXCEPT ![d] = [@ EXCEPT !.pc = "mapCreate",
                                        !.entCreate = TRUE,
                                        !.extId = Cardinality(qbCustomers) + 1]]
                     ELSE /\ UNCHANGED qbCustomers
                          /\ run' = [run EXCEPT ![d] = [@ EXCEPT !.pc = "idle",
                                        !.entCreate = TRUE, !.result = "raised",
                                        !.thrown = CreateInvoiceCatch(
                                                     CustomersCreateCatch(PlatformError("none"))),
                                        !.at = "entityCreate"]]
             ELSE /\ UNCHANGED qbCustomers
                  /\ IF ok
                     THEN /\ qbVendors' = qbVendors \cup
                                {[Id |-> Cardinality(qbVendors) + 1, name |-> run[d].name]}
                          /\ run' = [run EXCEPT ![d] = [@ EXCEPT !.pc = "mapCreate",
                                        !.entCreate = TRUE,
                                        !.extId = Cardinality(qbVendors) + 1]]
                     ELSE /\ UNCHANGED qbVendors
                          /\ run' = [run EXCEPT ![d] = [@ EXCEPT !.pc = "idle",
                                        !.entCreate = TRUE, !.result = "raised",
                                        !.thrown = VendorsCreateCatch(PlatformError("none")),
                                        !.at = "entityCreate"]]
    /\ UNCHANGED <<kind, aside, docVars, integration, localVars, mappings, qbInvoices, qbExpenses,
                   prev, runs>>

\* await EntityMapping.create({entity_type, external_id, local_id, ...}) for the
\* customer or vendor; createInvoice replaces a failure (line 453), createReceipt rethrows
MapCreate(d) ==
    /\ run[d].pc = "mapCreate"
    /\ \E ok \in BOOLEAN :
          IF ok
          THEN /\ mappings' = MappingCreate(EntityTypeOf(kind[d]), run[d].localId,
                                            run[d].extId)
               /\ run' = [run EXCEPT ![d] = [@ EXCEPT !.pc = "txnCreate",
                                                       !.mapped = TRUE]]
          ELSE /\ UNCHANGED mappings
               /\ Raise(d, IF kind[d] = "invoice" THEN CreateInvoiceCatch(DbError) ELSE DbError,
                        "mapCreate")
    /\ UNCHANGED <<kind, aside, docVars, integration, localVars, qbVars, prev, runs>>

\* where a run goes once the local transaction and its line items exist:
\* processDocument to its customer mapping, processReceiptDocument to its integration
AfterLines(k) == IF k = "invoice" THEN "customerRef" ELSE "integration2"
\* the loop over the items leaving one item before the last
LoopNext_OffByOne(i, n, k) == IF i + 1 < n THEN "lineItem" ELSE AfterLines(k)
\* for (const item of Items): with i items done of n, the next step of the run
LoopNext(i, n, k) == IF i < n THEN "lineItem" ELSE AfterLines(k)

\* await Invoice.create({...}) / await Purchase.create({..., VendorId: vendor.id})
TxnCreate(d) ==
    /\ run[d].pc = "txnCreate"
    /\ \E ok \in BOOLEAN :
          IF ~ok
          THEN /\ Raise(d, DbError, "txnCreate")
               /\ UNCHANGED <<invoices, purchases>>
          ELSE IF kind[d] = "invoice"
          THEN /\ invoices' = invoices \cup
                     {[id |-> Cardinality(invoices) + 1, DocumentId |-> d, CustomerId |-> 0]}
               /\ run' = [run EXCEPT ![d] = [@ EXCEPT !.pc = "txnSave",
                             !.txnId = Cardinality(invoices) + 1]]
               /\ UNCHANGED purchases
          ELSE /\ purchases' = purchases \cup
                     {[id |-> Cardinality(purchases) + 1, DocumentId |-> d,
                       VendorId |-> run[d].localId]}
               /\ run' = [run EXCEPT ![d] = [@ EXCEPT !.pc = "txnSave",
                             !.txnId = Cardinality(purchases) + 1]]
               /\ UNCHANGED invoices
    /\ UNCHANGED <<kind, aside, docVars, integration, customers, vendors, lineItems, mappings,
                   qbVars, prev, runs>>

\* invoice.CustomerId = customer.id; await invoice.save()
\* (receipt.VendorId = vendor.id; await receipt.save())
TxnSave(d) ==
    /\ run[d].pc = "txnSave"
    /\ \E ok \in BOOLEAN :
          IF ~ok
          THEN /\ Raise(d, DbError, "txnSave")
               /\ UNCHANGED invoices
          ELSE /\ invoices' =
                     IF kind[d] = "invoice"
                     THEN {IF r.id = run[d].txnId
                           THEN [r EXCEPT !.CustomerId = run[d].localId] ELSE r :
                           r \in invoices}
                     ELSE invoices
               /\ Goto(d, LoopNext(0, run[d].nItems, kind[d]))
    /\ UNCHANGED <<kind, aside, docVars, integration, customers, vendors, purchases, lineItems,
                   mappings, qbVars, prev, runs>>

\* for (const item of Items) await InvoiceLineItem.create({InvoiceId: invoice.id, ...})
\* (for (const item of PurchaseLines) await PurchaseLineItem.create({...}))
LineItem(d) ==
    /\ run[d].pc = "lineItem"
    /\ \E ok \in BOOLEAN :
          IF ~ok
          THEN /\ Raise(d, DbError, "lineItem")
               /\ UNCHANGED lineItems
          ELSE /\ lineItems' = lineItems \cup
                     {[type |-> TxnTypeOf(kind[d]), txn |-> run[d].txnId,
                       idx |-> run[d].i + 1]}
               /\ run' = [run EXCEPT ![d] = [@ EXCEPT !.i = @ + 1,
                             !.pc = LoopNext(run[d].i + 1, run[d].nItems, kind[d])]]
    /\ UNCHANGED <<kind, aside, docVars, integration, customers, vendors, invoices, purchases,
                   mappings, qbVars, prev, runs>>

(* ------------------- processDocument, after createInvoice --------------- *)
\* transformInvoiceForQuickBooks; await EntityMapping.findOne({CompanyId, "Customer",
\* invoice.CustomerId}); if (!entity) throw; CustomerRef = {value: entity.external_id};
\* validateInvoiceData(transformedInvoiceData)
CustomerRefStep(d, found, transformed) ==
    /\ run[d].pc = "customerRef"
    /\ IF found = {}
       THEN Raise(d, CustomerMappingNotFound, "customerRef")
       ELSE \E m \in found :
              LET payload == InjectCustomerRef(transformed, m)
                  valid == ValidateInvoiceData(payload)
                  next == AfterCustomerRef(valid)
              IN  run' = [run EXCEPT ![d] = [@ EXCEPT !.pc = next.pc,
                             !.ref = RefOf(payload), !.refRid = m.rid,
                             !.validated = next.validated, !.invalid = ~valid,
                             !.at = IF next.pc = "validationFailed" THEN "validate" ELSE @,
                             !.err = IF next.pc = "validationFailed"
                                     THEN InvoiceValidationError(payload) ELSE @]]
    /\ UNCHANGED <<kind, aside, docVars, integration, localVars, mappings, qbVars, prev, runs>>

CustomerRefLookup(d) ==
    CustomerRefStep(d, MappingsFor("Customer", run[d].localId),
                    TransformInvoice(run[d].nItems))

\* await Integration.findOne({where: {CompanyId, status: "Connected"}}) in
\* processDocument (line 195) and processReceiptDocument (line 283)
Integration2(d) ==
    /\ run[d].pc = "integration2"
    /\ IF integration
       THEN Goto(d, IF kind[d] = "invoice" THEN "submit" ELSE "vendorRef")
       ELSE Raise(d, IntegrationMissing, "integration2")
    /\ UNCHANGED <<kind, aside, docVars, integration, localVars, mappings, qbVars, prev, runs>>

\* await quickbooksApi.invoices.create(transformedInvoiceData), inside the try of line 212
SubmitInvoice(d) ==
    /\ run[d].pc = "submit"
    /\ kind[d] = "invoice"
    /\ \E answer \in {"ok", "ValidationFault", "TransportError"} :
          IF answer = "ok"
          THEN /\ qbInvoices' = qbInvoices \cup
                     {[Id |-> Cardinality(qbInvoices) + 1, doc |-> d,
                       local |-> run[d].txnId, ref |-> run[d].ref]}
               /\ run' = [run EXCEPT ![d] = [@ EXCEPT !.pc = "markProcessed",
                             !.txnIssued = TRUE, !.raw = answer,
                             !.extId = Cardinality(qbInvoices) + 1]]
          ELSE /\ UNCHANGED qbInvoices
               /\ run' = [run EXCEPT ![d] = [@ EXCEPT !.pc = "submissionFailed",
                             !.txnIssued = TRUE, !.raw = answer, !.at = "submit",
                             !.err = InvoicesCreateCatch(PlatformError(
                                        IF answer = "ValidationFault"
                                        THEN answer ELSE "none"))]]
    /\ UNCHANGED <<kind, aside, docVars, integration, localVars, mappings, qbCustomers, qbVendors,
                   qbExpenses, prev, runs>>

\* await documentData.update({processed_data, status: "Processed"})
MarkProcessed(d) ==
    /\ run[d].pc = "markProcessed"
    /\ \E ok \in BOOLEAN :
          IF ok
          THEN /\ status' = [status EXCEPT ![d] = "Processed"]
               /\ Goto(d, "txnMapping")
          ELSE /\ UNCHANGED status
               /\ run' = [run EXCEPT ![d] = [@ EXCEPT !.pc = "submissionFailed",
                             !.at = "markProcessed", !.err = DbError]]
    /\ UNCHANGED <<kind, aside, errorMessage, paths, pending, integration, localVars, mappings,
                   qbVars, prev, runs>>

\* await EntityMapping.create({entity_type: "Invoice" | "Receipt", local_id, external_id});
\* processDocument catches a failure (line 230), processReceiptDocument does not
TxnMapping(d) ==
    /\ run[d].pc = "txnMapping"
    /\ \E ok \in BOOLEAN :
          IF ok
          THEN /\ mappings' = MappingCreate(TxnTypeOf(kind[d]), run[d].txnId, run[d].extId)
               /\ run' = [run EXCEPT ![d] = [@ EXCEPT !.pc = "idle", !.result = "returned",
                                                       !.mapped = TRUE]]
          ELSE /\ UNCHANGED mappings
               /\ IF kind[d] = "invoice"
                  THEN run' = [run EXCEPT ![d] = [@ EXCEPT !.pc = "submissionFailed",
                                  !.at = "txnMapping", !.err = DbError]]
                  ELSE Raise(d, DbError, "txnMapping")
    /\ UNCHANGED <<kind, aside, docVars, integration, localVars, qbVars, prev, runs>>

\* processDocument's two handlers: the catch of validateInvoiceData (line 186) and the
\* catch around the submission (line 230); each awaits a Document update, then throws
StatusOnFailure(d) ==
    /\ run[d].pc \in {"validationFailed", "submissionFailed"}
    /\ LET e == run[d].err
       IN  \E ok \in BOOLEAN :
             IF ~ok
             THEN /\ Raise(d, DbError, "statusOnFailure")
                  /\ UNCHANGED <<status, errorMessage>>
             ELSE IF run[d].pc = "validationFailed"
             THEN /\ status' = [status EXCEPT ![d] = "ValidationError"]
                  /\ errorMessage' = [errorMessage EXCEPT ![d] = MessageOf(e)]
                  /\ Raise(d, e, run[d].at)
             ELSE IF FaultOf(e) = "ValidationFault"
             THEN /\ status' = [status EXCEPT ![d] = "ValidationError"]
                  /\ errorMessage' = [errorMessage EXCEPT ![d] = PlatformDetail]
                  /\ Raise(d, ErrorObj("QuickBooks Validation Error"), run[d].at)
             ELSE /\ status' = [status EXCEPT ![d] = "Error"]
                  /\ errorMessage' = [errorMessage EXCEPT ![d] = MessageOf(e)]
                  /\ Raise(d, e, run[d].at)
    /\ UNCHANGED <<kind, aside, paths, pending, integration, localVars, mappings, qbVars, prev,
                   runs>>

(* --------------- processReceiptDocument, after createReceipt ------------ *)
\* the branch of `if (isReadyReceipt)` with "Ready" written and expenses.create called
\* whatever the validator said
ReceiptGate_AlwaysReady(isReadyReceipt) == [status |-> "Ready", pc |-> "submit"]
\* the else branch writing "Error" where the code writes "MissingData"
ReceiptGate_ErrorOnReject(isReadyReceipt) ==
    IF isReadyReceipt THEN [status |-> "Ready", pc |-> "submit"]
                      ELSE [status |-> "Error", pc |-> "idle"]
\* if (isReadyReceipt) {update "Ready"; submit} else {update "MissingData"; return}
ReceiptGate(isReadyReceipt) ==
    IF isReadyReceipt THEN [status |-> "Ready", pc |-> "submit"]
                      ELSE [status |-> "MissingData", pc |-> "idle"]

\* await EntityMapping.findOne({CompanyId, "Vendor", receipt.VendorId});
\* receipt.transform(json, vendorEntity.external_id); receipt.validate(...); then the
\* Document write of "Ready" or "MissingData" is started and not awaited
VendorRefStep(d, found) ==
    /\ run[d].pc = "vendorRef"
    /\ IF found = {}
       THEN /\ Raise(d, VendorEntityNull, "vendorRef")
            /\ UNCHANGED pending
       ELSE \E m \in found, isReadyReceipt \in BOOLEAN :
              LET gate == ReceiptGate(isReadyReceipt)
              IN  /\ pending' = [pending EXCEPT ![d] = @ \cup
                        {[field |-> "status", status |-> gate.status, run |-> runs[d]]}]
                  /\ run' = [run EXCEPT ![d] = [@ EXCEPT !.pc = gate.pc,
                                !.ref = m.external_id, !.refRid = m.rid,
                                !.validated = isReadyReceipt,
                                !.invalid = ~isReadyReceipt,
                                !.result = IF gate.pc = "idle" THEN "returned" ELSE @]]
    /\ UNCHANGED <<kind, aside, status, errorMessage, paths, integration, localVars, mappings,
                   qbVars, prev, runs>>

VendorRefLookup(d) == VendorRefStep(d, MappingsFor("Vendor", run[d].localId))

\* const response = await quickbooksApi.expenses.create(transformedReceipt)
SubmitExpense(d) ==
    /\ run[d].pc = "submit"
    /\ kind[d] = "receipt"
    /\ \E answer \in {"ok", "TransportError"} :
          IF answer = "ok"
          THEN /\ qbExpenses' = qbExpenses \cup
                     {[Id |-> Cardinality(qbExpenses) + 1, doc |-> d,
                       local |-> run[d].txnId, ref |-> run[d].ref]}
               /\ run' = [run EXCEPT ![d] = [@ EXCEPT !.pc = "txnMapping",
                             !.txnIssued = TRUE, !.raw = answer,
                             !.extId = Cardinality(qbExpenses) + 1]]
          ELSE /\ UNCHANGED qbExpenses
               /\ run' = [run EXCEPT ![d] = [@ EXCEPT !.pc = "idle",
                             !.txnIssued = TRUE, !.raw = answer, !.result = "raised",
                             !.thrown = ExpensesCreateCatch(PlatformError("none")),
                             !.at = "submit"]]
    /\ UNCHANGED <<kind, aside, docVars, integration, localVars, mappings, qbCustomers, qbVendors,
                   qbInvoices, prev, runs>>

\* a Document write that processReceiptDocument started without await completes, or
\* is rejected with nobody to catch it
CompleteWrite(d) ==
    /\ \E w \in pending[d], ok \in BOOLEAN :
          /\ pending' = [pending EXCEPT ![d] = @ \ {w}]
          /\ IF ok /\ w.field = "paths"
             THEN paths' = [paths EXCEPT ![d] = w.run]
             ELSE UNCHANGED paths
          /\ IF ok /\ w.field = "status"
             THEN status' = [status EXCEPT ![d] = w.status]
             ELSE UNCHANGED status
    /\ UNCHANGED <<kind, aside, errorMessage, integration, localVars, mappings, qbVars, run, prev,
                   runs>>

(* ----------------------------- the tenant ------------------------------- *)
\* the tenant connects its QuickBooks integration (status "Connected")
Connect ==
    /\ ~integration
    /\ integration' = TRUE
    /\ UNCHANGED <<kind, aside, docVars, localVars, mappings, qbVars, run, prev, runs>>

\* the tenant's integration stops being "Connected"
Disconnect ==
    /\ integration
    /\ integration' = FALSE
    /\ UNCHANGED <<kind, aside, docVars, localVars, mappings, qbVars, run, prev, runs>>

\* the steps of a run other than the two lookups that lead to the submission
PipelineStep(d) ==
    \/ Start(d)
    \/ MarkExtraction(d)
    \/ ProcessFile(d)
    \/ SavePaths(d)
    \/ Extract(d)
    \/ FindOrCreateEntity(d)
    \/ Integration1(d)
    \/ MapLookup(d)
    \/ FindByName(d)
    \/ EntityCreate(d)
    \/ MapCreate(d)
    \/ TxnCreate(d)
    \/ TxnSave(d)
    \/ LineItem(d)
    \/ Integration2(d)
    \/ SubmitInvoice(d)
    \/ MarkProcessed(d)
    \/ TxnMapping(d)
    \/ StatusOnFailure(d)
    \/ SubmitExpense(d)

Step(d) ==
    \/ PipelineStep(d)
    \/ CustomerRefLookup(d)
    \/ VendorRefLookup(d)

Next ==
    \/ \E d \in Docs : Step(d)
    \/ \E d \in Docs : CompleteWrite(d)
    \/ Connect
    \/ Disconnect

Spec == Init /\ [][Next]_vars

\* the same program when the host runs one pipeline at a time: a run starts only when
\* no other document's run is under way
NextSeq ==
    \/ \E d \in Docs : (\A e \in Docs \ {d} : run[e].pc = "idle") /\ Step(d)
    \/ \E d \in Docs : CompleteWrite(d)
    \/ Connect
    \/ Disconnect

SeqSpec == Init /\ [][NextSeq]_vars

(* ------------- the two pipelines against stubbed collaborators ---------- *)
\* a transformer result that validateInvoiceData rejects: it has no Line
NoLine == [Line |-> Absent, CustomerRef |-> Absent]

\* processDocument lines 156-193 when EntityMapping.findOne may resolve to null and
\* the transformer may hand back a payload without Line
CustomerRefLookupStub(d) ==
    \E found \in {MappingsFor("Customer", run[d].localId), {}},
       transformed \in {TransformInvoice(run[d].nItems), NoLine} :
        CustomerRefStep(d, found, transformed)

\* processReceiptDocument lines 299-332 when EntityMapping.findOne may resolve to null
VendorRefLookupStub(d) ==
    \E found \in {MappingsFor("Vendor", run[d].localId), {}} : VendorRefStep(d, found)

StubStep(d) ==
    \/ PipelineStep(d)
    \/ CustomerRefLookupStub(d)
    \/ VendorRefLookupStub(d)

\* one pipeline at a time, as in NextSeq
NextStub ==
    \/ \E d \in Docs : (\A e \in Docs \ {d} : run[e].pc = "idle") /\ StubStep(d)
    \/ \E d \in Docs : CompleteWrite(d)
    \/ Connect
    \/ Disconnect

StubSpec == Init /\ [][NextStub]_vars

(* ------------- the transformer and the validator on their own ---------- *)
\* the pipeline at rest: no run of any document is started in these specifications
PipelineAtRest ==
    /\ PipelineInit
    /\ kind = [d \in Docs |-> "invoice"]
    /\ integration = TRUE

\* a number of the extraction: absent (undefined or null) or 0..MaxValue hundredths
Numbers == {Absent} \cup {Some(v) : v \in 0..MaxValue}
\* a string of n characters, each character named by its position
StringOf(n) == [i \in 1..n |-> i]
Strings == {Absent} \cup {Some(StringOf(n)) : n \in 0..MaxLen}
ItemFields == [Quantity : Numbers, UnitPrice : Numbers, TotalAmount : Numbers]
\* an Items array: item i has the three numbers f gives it
ItemsOf(f, n) ==
    [i \in 1..n |-> [Description |-> i, Quantity |-> f[i].Quantity,
                     UnitPrice |-> f[i].UnitPrice, TotalAmount |-> f[i].TotalAmount]]

\* what extraction hands to transformInvoiceForQuickBooks: every array of at most
\* MaxLines items with any discount and no invoice number, or any invoice number with
\* at most one blank item
TransformInit ==
    /\ PipelineAtRest
    /\ \/ \E n \in 0..MaxLines : \E f \in [1..n -> ItemFields] : \E dt \in Numbers :
            processedJson = Some([Items |-> ItemsOf(f, n), DiscountTotal |-> dt,
                                  InvoiceNumber |-> Absent])
       \/ \E n \in 0..1 : \E s \in Strings :
            processedJson = Some([ExtractionOf(n) EXCEPT !.InvoiceNumber = s])
    /\ transformedInvoiceData = NotCalled
    /\ invoiceData = NotCalled
    /\ verdict = NotCalled
    /\ TokenIdle

\* processDocument: const transformedInvoiceData = transformInvoiceForQuickBooks(processedJson)
Transform ==
    /\ transformedInvoiceData = NotCalled
    /\ transformedInvoiceData' = Some(TransformInvoiceForQuickBooks(ValueOf(processedJson)))
    /\ UNCHANGED <<pipelineVars, tokenVars, processedJson, invoiceData, verdict>>

\* processDocument: transformedInvoiceData.CustomerRef = {value: entity.external_id},
\* for the mapping the lookup found; the result is what validateInvoiceData is given
Inject ==
    /\ transformedInvoiceData # NotCalled /\ invoiceData = NotCalled
    /\ \E e \in Names :
         invoiceData' = Some(InjectCustomerRef(ValueOf(transformedInvoiceData),
                                 [entity_type |-> "Customer", local_id |-> e,
                                  external_id |-> e, rid |-> 1]))
    /\ UNCHANGED <<pipelineVars, tokenVars, processedJson, transformedInvoiceData, verdict>>

\* validateInvoiceData(invoiceData): what it throws and what it warns of
Validate ==
    /\ invoiceData # NotCalled /\ verdict = NotCalled
    /\ verdict' = Some([errors |-> ValidationErrors(ValueOf(invoiceData)),
                        warnings |-> ValidationWarnings(ValueOf(invoiceData)),
                        thrown |-> IF ValidateInvoiceData(ValueOf(invoiceData))
                                   THEN NoError
                                   ELSE InvoiceValidationError(ValueOf(invoiceData))])
    /\ UNCHANGED <<pipelineVars, tokenVars, processedJson, transformedInvoiceData, invoiceData>>

NextTransform == Transform \/ Inject \/ Validate
TransformSpec == TransformInit /\ [][NextTransform]_vars

(* ---------------------- the validator on any payload ------------------- *)
\* the lines a payload may carry: a sales line with any of Amount, Qty and UnitPrice
\* absent or 0..MaxValue hundredths, or a discount line with an Amount
PayloadLines ==
    {[DetailType |-> "SalesItemLineDetail", Description |-> 0, Amount |-> a,
      Qty |-> q, UnitPrice |-> u, PercentBased |-> Absent] :
        a \in Numbers, q \in Numbers, u \in Numbers}
    \cup {[DetailType |-> "DiscountLineDetail", Description |-> 0, Amount |-> a,
           Qty |-> Absent, UnitPrice |-> Absent, PercentBased |-> Some(FALSE)] :
             a \in Numbers}
\* the payloads validateInvoiceData may be called with: CustomerRef there or not, Line
\* absent or an array of at most MaxLines lines, the empty one included
ValidateInit ==
    /\ PipelineAtRest
    /\ processedJson = NotCalled
    /\ transformedInvoiceData = NotCalled
    /\ \E c \in {Absent, Some([value |-> 1])} :
         \/ invoiceData = Some([Line |-> Absent, CustomerRef |-> c, DocNumber |-> <<>>])
         \/ \E n \in 0..MaxLines : \E ls \in [1..n -> PayloadLines] :
              invoiceData = Some([Line |-> Some(ls), CustomerRef |-> c, DocNumber |-> <<>>])
    /\ verdict = NotCalled
    /\ TokenIdle

ValidateSpec == ValidateInit /\ [][Validate]_vars

(* ----------------- the API client and the shared oauthClient ----------- *)
\* oauthClient.isAccessTokenValid(): of the token the shared client holds now
IsAccessTokenValid(token) == token # NoToken /\ token \notin expired

\* Integration.update({credentials}, {where: {}}): every row written
IntegrationUpdate_AllRows(rows, id, creds) == [i \in DOMAIN rows |-> creds]
\* Integration.update({credentials}, {where: {id: integrationId}})
IntegrationUpdate(rows, id, creds) == [rows EXCEPT ![id] = creds]

\* an API method (invoices.create, ...) called on tenant t's client, up to the first
\* await that waits for the platform: the client is a new one built from the persisted
\* credentials (new quickbooksApiClient(integration.credentials, integration.id)) or
\* the one of the call before with the config it was built with; refreshOrSetToken
\* reads isAccessTokenValid() of whatever token is installed, then installs
\* this.config; with nothing to refresh the request follows in the same turn
BeginCall(t) ==
    /\ client[t].pc = "idle" /\ client[t].calls < MaxCalls
    /\ \E reuse \in BOOLEAN :
         /\ reuse => client[t].config # NoConfig
         /\ LET config == IF reuse THEN client[t].config ELSE credentials[t]
                isValid == IsAccessTokenValid(installed)
                began == [client[t] EXCEPT !.integrationId = t, !.config = config,
                            !.isValid = isValid, !.fresh = NoToken,
                            !.ownExpired = (config = credentials[t]
                                              /\ config.token \in expired),
                            !.refreshed = FALSE]
            IN  /\ installed' = config.token
                /\ client' = [client EXCEPT ![t] =
                       IF isValid
                       THEN [began EXCEPT !.sentWith = config.token, !.calls = @ + 1]
                       ELSE [began EXCEPT !.pc = "refresh"]]
    /\ UNCHANGED <<pipelineVars, fnVars, credentials, expired>>

\* await oauthClient.refreshUsingToken(this.config.refresh_token): the platform answers
\* with the realm's next tokens, or the call fails and .catch logs it
RefreshUsingToken(t) ==
    /\ client[t].pc = "refresh"
    /\ \E ok \in BOOLEAN :
         client' = [client EXCEPT ![t] =
            IF ok
            THEN [@ EXCEPT !.pc = "save", !.refreshed = TRUE,
                           !.fresh = [realm |-> client[t].config.realmId,
                                      gen |-> credentials[client[t].config.realmId].token.gen + 1]]
            ELSE [@ EXCEPT !.pc = "request", !.refreshed = TRUE]]
    /\ UNCHANGED <<pipelineVars, fnVars, installed, credentials, expired>>

\* the .then callback: await Integration.update({credentials}, {where: {id:
\* integrationId}}), then oauthClient.setToken(credentials); a failed write goes to
\* .catch, which logs it
SaveCredentials(t) ==
    /\ client[t].pc = "save"
    /\ \E ok \in BOOLEAN :
         IF ok
         THEN /\ credentials' = IntegrationUpdate(credentials, client[t].integrationId,
                                    [realmId |-> client[t].config.realmId,
                                     token |-> client[t].fresh])
              /\ installed' = client[t].fresh
         ELSE UNCHANGED <<installed, credentials>>
    /\ client' = [client EXCEPT ![t].pc = "request"]
    /\ UNCHANGED <<pipelineVars, fnVars, expired>>

\* await oauthClient.makeApiCall({url: this.baseUrl + ...}): the request to the realm of
\* this client bears the token the shared client holds when it is made
MakeApiCall(t) ==
    /\ client[t].pc = "request"
    /\ client' = [client EXCEPT ![t] =
          [@ EXCEPT !.pc = "idle", !.sentWith = installed, !.calls = @ + 1]]
    /\ UNCHANGED <<pipelineVars, fnVars, installed, credentials, expired>>

\* time passes: the access token persisted for tenant t runs out
Expire(t) ==
    /\ credentials[t].token \notin expired
    /\ expired' = expired \cup {credentials[t].token}
    /\ UNCHANGED <<pipelineVars, fnVars, installed, credentials, client>>

TokenInit == PipelineAtRest /\ FnIdle /\ TokenIdle
NextToken ==
    \E t \in Tenants :
        \/ BeginCall(t)
        \/ RefreshUsingToken(t)
        \/ SaveCredentials(t)
        \/ MakeApiCall(t)
        \/ Expire(t)
TokenSpec == TokenInit /\ [][NextToken]_vars

(* ------------------------------- claims --------------------------------- *)
Raised(d) == run[d].pc = "idle" /\ run[d].result = "raised"

\* C1: every run that ends by raising has moved the Document's status off "Extraction":
\* the status reflects the failure. (The code: only the two handlers of processDocument
\* write a status; every other failure leaves "Extraction".)
C1_FailureUpdatesStatus ==
    \A d \in Docs : Raised(d) => status[d] # "Extraction"

\* C2: a run that fails because the tenant has no "Connected" Integration ends with the
\* Document's status "Error".
C2_NoIntegrationSetsError ==
    \A d \in Docs : (Raised(d) /\ run[d].thrown = IntegrationMissing) => status[d] = "Error"

\* C3: a run that has issued customers.create or vendors.create has before that missed
\* the EntityMapping lookup and then missed the external lookup-by-name.
C3_CreateAfterBothLookupsMiss ==
    \A d \in Docs :
        run[d].entCreate => (run[d].mapLookup = "miss" /\ run[d].nameLookup = "miss")

\* C4: there is at most one EntityMapping row per (entity_type, local_id) of the tenant.
C4_OneMappingPerLocalEntity ==
    \A m1, m2 \in mappings :
        (m1.entity_type = m2.entity_type /\ m1.local_id = m2.local_id) => m1.rid = m2.rid

\* C5: for one local Customer or Vendor (a name of the tenant) at most one external
\* create call is ever issued; counted here are only the calls the platform accepted,
\* each of which made one external entity (customers and vendors are never deleted).
C5_OneExternalCreatePerName ==
    \A n \in Names : /\ Cardinality({c \in qbCustomers : c.name = n}) <= 1
                     /\ Cardinality({v \in qbVendors : v.name = n}) <= 1

\* C6: a run that retries a Document whose previous run failed for lack of a credential
\* adds no second Customer/Vendor of a name and no second EntityMapping of a
\* (entity_type, local_id), and works on the Customer/Vendor row the failed run left.
RetryAfterIntegrationMissing(d) ==
    prev[d].result = "raised" /\ prev[d].thrown = IntegrationMissing
C6_RetryIdempotent ==
    \A d \in Docs :
        RetryAfterIntegrationMissing(d) =>
            /\ \A r1, r2 \in customers : r1.name = r2.name => r1.id = r2.id
            /\ \A r1, r2 \in vendors : r1.name = r2.name => r1.id = r2.id
            /\ \A m1, m2 \in mappings :
                  (m1.entity_type = m2.entity_type /\ m1.local_id = m2.local_id)
                      => m1.rid = m2.rid
            /\ (run[d].localId # 0 /\ run[d].name = prev[d].name)
                  => run[d].localId = prev[d].localId
\* C6 witness: the retry, with the credential now present, went through: it reused the
\* failed run's local row and that row now has its mapping
C6_Witness ==
    \E d \in Docs :
        /\ RetryAfterIntegrationMissing(d)
        /\ run[d].pc = "idle" /\ run[d].result = "returned"
        /\ run[d].localId = prev[d].localId
        /\ MappingsFor(EntityTypeOf(kind[d]), run[d].localId) # {}

\* C7: over runs on one Document of which every one before the last failed, at most one
\* external invoice (expense) exists for that Document, and no local Invoice/Purchase has
\* two external counterparts.
C7_OneExternalTransactionPerDocument ==
    \A d \in Docs :
        ~prev[d].anyReturned =>
            /\ Cardinality({x \in qbInvoices : x.doc = d}) <= 1
            /\ Cardinality({x \in qbExpenses : x.doc = d}) <= 1
            /\ \A x, y \in qbInvoices : x.local = y.local => x.Id = y.Id
            /\ \A x, y \in qbExpenses : x.local = y.local => x.Id = y.Id

\* C8 as stated: an invoice run issues no external create (customers.create or
\* invoices.create) before validateInvoiceData has passed in that run.
C8_NoExternalWriteBeforeValidation ==
    \A d \in Docs :
        (kind[d] = "invoice" /\ (run[d].entCreate \/ run[d].txnIssued)) => run[d].validated
\* C8 amended: an invoice run issues invoices.create only after validateInvoiceData has
\* passed in that run (customers.create comes earlier, in createInvoice).
C8_NoSubmissionBeforeValidation ==
    \A d \in Docs : (kind[d] = "invoice" /\ run[d].txnIssued) => run[d].validated
\* C8 witness: an invoice run that created its customer, validated and then submitted
C8_Witness ==
    \E d \in Docs :
        kind[d] = "invoice" /\ run[d].entCreate /\ run[d].validated /\ run[d].txnIssued

\* C9: a run whose invoice the platform rejected with a ValidationFault, and whose handler
\* wrote the Document, ends with status "ValidationError" and the platform's Detail as
\* error_message.
C9_ValidationFaultSurfaced ==
    \A d \in Docs :
        (Raised(d) /\ kind[d] = "invoice" /\ run[d].at = "submit"
                   /\ run[d].raw = "ValidationFault")
            => (status[d] = "ValidationError" /\ errorMessage[d] = PlatformDetail)

\* C10: a run whose invoices.create failed otherwise, and whose handler wrote the
\* Document, ends with status "Error", error_message the text of the exception that the
\* submission raised, and that exception raised to the caller.
C10_SubmissionFailureRecorded ==
    \A d \in Docs :
        (Raised(d) /\ kind[d] = "invoice" /\ run[d].at = "submit"
                   /\ run[d].raw # "ValidationFault")
            => /\ status[d] = "Error"
               /\ errorMessage[d] = run[d].err.text
               /\ run[d].thrown = run[d].err

\* C11: a receipt run whose expenses.create failed ends with the Document's status
\* "Error" (so never "Ready"), the failure raised to the caller. (The code: the write of
\* "Ready" is started before expenses.create is awaited, and processReceiptDocument has
\* no handler that writes a status.)
C11_ExpenseFailureSetsError ==
    \A d \in Docs :
        (Raised(d) /\ kind[d] = "receipt" /\ run[d].at = "submit") => status[d] = "Error"

\* the run of document d has ended, one way or the other
Ended(d) == run[d].pc = "idle" /\ run[d].result # "none"
\* the run's local invoice has exactly one Invoice mapping, to the id the platform gave
OneInvoiceMapping(d) ==
    /\ Cardinality(MappingsFor("Invoice", run[d].txnId)) = 1
    /\ \A m \in MappingsFor("Invoice", run[d].txnId) : m.external_id = run[d].extId

C13_LocalValidationFailure ==
    \A d \in Docs :
        (kind[d] = "invoice" /\ run[d].invalid) =>
            /\ ~run[d].txnIssued
            /\ run[d].pc \in {"validationFailed", "idle"}
            /\ (Raised(d) /\ run[d].at = "validate") =>
                  /\ status[d] = "ValidationError"
                  /\ errorMessage[d] = "Invoice validation failed: Missing required field: Line, Missing or invalid Line items array"
                  /\ run[d].thrown = ErrorObj(errorMessage[d])
\* C13 witness: a rejected payload, the handler's write done, the error raised
C13_Witness ==
    \E d \in Docs :
        /\ kind[d] = "invoice" /\ run[d].invalid /\ Raised(d) /\ run[d].at = "validate"
        /\ status[d] = "ValidationError"

\* C14: invoices.create (expenses.create) is issued only by a run that found a Customer
\* (Vendor) mapping of its local customer (vendor) and sends that mapping's external_id
\* as the reference; every external invoice and expense carries the external_id of a
\* mapping of its local transaction's customer or vendor; the transformer itself
\* produces no CustomerRef.
C14_SubmissionUsesMapping ==
    /\ \A d \in Docs :
          run[d].txnIssued =>
              \E m \in MappingsFor(EntityTypeOf(kind[d]), run[d].localId) :
                  m.rid = run[d].refRid /\ m.external_id = run[d].ref
    /\ \A x \in qbInvoices :
          \E r \in invoices :
              /\ r.id = x.local
              /\ \E m \in MappingsFor("Customer", r.CustomerId) : m.external_id = x.ref
    /\ \A x \in qbExpenses :
          \E r \in purchases :
              /\ r.id = x.local
              /\ \E m \in MappingsFor("Vendor", r.VendorId) : m.external_id = x.ref
    /\ \A n \in 0..MaxItems : TransformInvoice(n).CustomerRef = Absent
\* C14 witness: an external invoice whose reference is the external id of the mapping
\* the run found, where that id differs from the local customer's id
C14_Witness ==
    \E d \in Docs :
        /\ kind[d] = "invoice" /\ run[d].txnIssued /\ run[d].ref # run[d].localId
        /\ \E x \in qbInvoices : x.local = run[d].txnId /\ x.ref = run[d].ref

\* C15: a step that finds the complementary mapping absent (Customer at processDocument
\* line 166, Vendor at processReceiptDocument line 299) ends the run with a
\* mapping-not-found error, creates no mapping and submits nothing. (The code: the
\* receipt pipeline has no `if (!vendorEntity)`; it reads external_id of null.)
C15_AbsentMappingFailsNotFound ==
    [][\A d \in Docs :
          (run[d].pc \in {"customerRef", "vendorRef"} /\ run'[d].at = run[d].pc) =>
              /\ run'[d].pc = "idle" /\ run'[d].result = "raised"
              /\ run'[d].thrown.text \in {"Customer mapping not found",
                                          "Vendor mapping not found"}
              /\ mappings' = mappings
              /\ qbVars' = qbVars]_vars

C17_ReadinessGate ==
    /\ [](\A d \in Docs :
            (kind[d] = "receipt" /\ run[d].invalid) =>
                /\ Ended(d) /\ run[d].result = "returned"
                /\ ~run[d].txnIssued
                /\ MappingsFor("Receipt", run[d].txnId) = {})
    /\ [][\A d \in Docs :
            kind[d] = "receipt" =>
                LET started == {w \in pending'[d] \ pending[d] : w.field = "status"}
                    done == pending[d] \ pending'[d]
                IN  /\ \A w \in started :
                          \/ /\ w.status = "Ready"
                             /\ run'[d].validated
                             /\ \E m \in MappingsFor("Vendor", run[d].localId) :
                                   m.rid = run'[d].refRid
                          \/ w.status = "MissingData" /\ run'[d].invalid
                    /\ (run'[d].invalid /\ ~run[d].invalid)
                          => \E w \in started : w.status = "MissingData"
                    /\ (status'[d] # status[d] /\ status'[d] \in {"Ready", "MissingData"})
                          => \E w \in done : w.status = status'[d]]_vars
\* C17 witness: the validator rejected, the run returned, the write of "MissingData" is done
C17_Witness ==
    \E d \in Docs :
        /\ kind[d] = "receipt" /\ run[d].invalid /\ Ended(d)
        /\ status[d] = "MissingData" /\ pending[d] = {}

\* the steps that call out of the process: storage (processFile), the extraction
\* service, the accounting platform (findByName, the two creates, the submission)
ExternalCalls == {"processFile", "extract", "findByName", "entityCreate", "submit"}

\* C18: a run is about to make an external call only after its write of "Extraction"
\* has completed (marked); the write is the awaited first update of the run and sets
\* the status to "Extraction", which an invoice Document (no un-awaited writes) still
\* shows when its run calls processFile.
C18_ExtractionBeforeExternalCalls ==
    /\ [](\A d \in Docs :
            /\ run[d].pc \in ExternalCalls => run[d].marked
            /\ (run[d].pc = "processFile" /\ kind[d] = "invoice")
                  => status[d] = "Extraction")
    /\ [][\A d \in Docs :
            (run'[d].marked /\ ~run[d].marked) =>
                (run[d].pc = "markExtraction" /\ status'[d] = "Extraction")]_vars
\* C18 witness: a receipt run and an invoice run at their extraction calls, the status
\* written
C18_Witness ==
    \E d, e \in Docs :
        /\ kind[d] = "invoice" /\ kind[e] = "receipt"
        /\ run[d].pc = "extract" /\ run[e].pc = "extract"
        /\ run[d].marked /\ run[e].marked
        /\ status[d] = "Extraction" /\ status[e] = "Extraction"

\* C19: a run that is at, or past, its call of invoices.create / expenses.create has its
\* local Customer/Vendor, its local Invoice/Purchase for the Document (the invoice tied
\* to the customer) and one line item per extracted item; so they exist when the call
\* fails.
C19_LocalStateBeforeSubmission ==
    \A d \in Docs :
        (run[d].pc = "submit" \/ run[d].txnIssued) =>
            /\ \E r \in (IF kind[d] = "invoice" THEN customers ELSE vendors) :
                  r.id = run[d].localId /\ r.name = run[d].name
            /\ IF kind[d] = "invoice"
               THEN \E t \in invoices : /\ t.id = run[d].txnId /\ t.DocumentId = d
                                        /\ t.CustomerId = run[d].localId
               ELSE \E t \in purchases : /\ t.id = run[d].txnId /\ t.DocumentId = d
                                         /\ t.VendorId = run[d].localId
            /\ {l.idx : l \in {x \in lineItems : /\ x.type = TxnTypeOf(kind[d])
                                                 /\ x.txn = run[d].txnId}}
                  = 1..run[d].nItems
\* C19 witness: a submission that failed, of a transaction with items
C19_Witness ==
    \E d \in Docs :
        /\ run[d].txnIssued /\ run[d].raw = "TransportError" /\ run[d].nItems = MaxItems
        /\ \E l \in lineItems : l.type = TxnTypeOf(kind[d]) /\ l.txn = run[d].txnId

\* the statuses each pipeline writes, by the kind of Document
StatusesOf(k) ==
    IF k = "invoice" THEN {"Extraction", "Processed", "ValidationError", "Error"}
                     ELSE {"Extraction", "Ready", "MissingData"}

\* C20: every status a pipeline writes is one of its own (invoice: Extraction, Processed,
\* ValidationError, Error; receipt: Extraction, Ready, MissingData); so a Document whose
\* status a run has written, and any run past its first write, shows one of the defined
\* states, never undefined. ("New" stands for the status a Document has before its first
\* run writes one.)
C20_StatusDomain ==
    /\ [](\A d \in Docs :
            /\ status[d] # "New" => status[d] \in StatusesOf(kind[d])
            /\ run[d].marked => status[d] \in StatusesOf(kind[d])
            /\ status[d] # Undefined)
    /\ [][\A d \in Docs :
            status'[d] # status[d] => status'[d] \in StatusesOf(kind[d])]_vars
\* C20 witness: a failed invoice run and a finished receipt run, each Document in a
\* state of its own pipeline
C20_Witness ==
    \E d, e \in Docs :
        /\ kind[d] = "invoice" /\ Ended(d) /\ status[d] = "Error"
        /\ kind[e] = "receipt" /\ Ended(e) /\ status[e] = "MissingData"

\* the lines of the payload and the items they were built from
TransformedLines == ValueOf(ValueOf(transformedInvoiceData).Line)
ExtractedItems == ValueOf(processedJson).Items

\* C21: the line built from an item has Amount = TotalAmount when the item has a
\* TotalAmount (0 included), else Quantity x UnitPrice; its Qty is 1 when the item has
\* no Quantity; its UnitPrice is the line's Amount when the item has no UnitPrice.
\* (The code: `||` takes a TotalAmount of 0, and a Quantity of 0, for an absent one.)
C21_LineAmount ==
    transformedInvoiceData # NotCalled =>
      \A k \in 1..Len(ExtractedItems) :
        LET item == ExtractedItems[k]
            line == TransformedLines[k]
        IN  /\ item.TotalAmount # Absent => line.Amount = item.TotalAmount
            /\ (item.TotalAmount = Absent /\ item.Quantity # Absent /\ item.UnitPrice # Absent)
                 => line.Amount = Some(ValueOf(item.Quantity) * ValueOf(item.UnitPrice))
            /\ item.Quantity = Absent => line.Qty = Some(1)
            /\ item.UnitPrice = Absent => line.UnitPrice = line.Amount

\* C22: the Line array of the payload has one entry more than the extraction has items:
\* a sales line per item, in the order of the items, then exactly one discount line,
\* last, not percent-based, whose Amount is DiscountTotal, or 0 when that is absent.
C22_LineLayout ==
    transformedInvoiceData # NotCalled =>
      LET n == Len(ExtractedItems)
          discount == ValueOf(processedJson).DiscountTotal
      IN  /\ Len(TransformedLines) = n + 1
          /\ \A k \in 1..n :
               /\ TransformedLines[k].DetailType = "SalesItemLineDetail"
               /\ TransformedLines[k].Description = ExtractedItems[k].Description
          /\ TransformedLines[n + 1].DetailType = "DiscountLineDetail"
          /\ TransformedLines[n + 1].PercentBased = Some(FALSE)
          /\ TransformedLines[n + 1].Amount
               = (IF discount = Absent THEN Some(0) ELSE discount)
\* two items and a discount went through the transformer
C22_Witness ==
    /\ transformedInvoiceData # NotCalled
    /\ Len(ExtractedItems) = MaxLines
    /\ ValueOf(processedJson).DiscountTotal = Some(MaxValue)
    /\ TransformedLines[MaxLines + 1].Amount = Some(MaxValue)

\* C23: the payload's DocNumber is the extraction's InvoiceNumber when that has at most
\* 20 characters, its last 20 characters when it has more, and the empty string when
\* the extraction has no InvoiceNumber.
C23_DocNumber ==
    transformedInvoiceData # NotCalled =>
      LET number == ValueOf(processedJson).InvoiceNumber
          doc == ValueOf(transformedInvoiceData).DocNumber
      IN  IF number = Absent THEN doc = <<>>
          ELSE IF Len(ValueOf(number)) <= 20 THEN doc = ValueOf(number)
          ELSE /\ Len(doc) = 20
               /\ \A i \in 1..20 : doc[i] = ValueOf(number)[Len(ValueOf(number)) - 20 + i]
\* an invoice number of more than 20 characters went through the transformer
C23_Witness ==
    /\ transformedInvoiceData # NotCalled
    /\ ValueOf(processedJson).InvoiceNumber = Some(StringOf(MaxLen))
    /\ ValueOf(transformedInvoiceData).DocNumber # StringOf(MaxLen)
    /\ Len(ValueOf(transformedInvoiceData).DocNumber) = DocNumberLength

\* the reasons validateInvoiceData collected, and whether it threw
Reasons == {ValueOf(verdict).errors[i] : i \in 1..Len(ValueOf(verdict).errors)}
Threw == ValueOf(verdict).thrown # NoError

\* C24: validateInvoiceData raises one error that lists every reason it found; a payload
\* with no CustomerRef whose Line is absent or an empty array fails with both "Missing
\* required field: CustomerRef" and the line-array reason. (The code: an empty array is
\* truthy and an array, so it adds no reason.)
C24_AggregatesReasons ==
    verdict # NotCalled =>
      LET p == ValueOf(invoiceData)
      IN  /\ Threw <=> Reasons # {}
          /\ (p.CustomerRef = Absent /\ (p.Line = Absent \/ p.Line = Some(<<>>)))
               => /\ Threw
                  /\ "Missing required field: CustomerRef" \in Reasons
                  /\ "Missing or invalid Line items array" \in Reasons

\* the lines of the payload validateInvoiceData was given (none when Line is absent)
PayloadLinesGiven ==
    IF ValueOf(invoiceData).Line = Absent THEN <<>> ELSE ValueOf(ValueOf(invoiceData).Line)

\* C25: a payload with a sales line whose Amount is absent fails validation with the
\* reason "Line item k: Missing Amount" for that line. (The code tests `line.Amount ||
\* 0` for undefined and null, which it never is.)
C25_MissingAmountRejected ==
    verdict # NotCalled =>
      \A k \in 1..Len(PayloadLinesGiven) :
        (/\ PayloadLinesGiven[k].DetailType = "SalesItemLineDetail"
         /\ PayloadLinesGiven[k].Amount = Absent)
          => /\ Threw
             /\ ("Line item " \o ToString(k - 1) \o ": Missing Amount") \in Reasons

\* C26: a sales line with quantity q, unit price u and amount a (hundredths) is warned
\* of exactly when |q * u - a| is above one hundredth, and no mismatch adds a reason:
\* what the validation finds wrong is the same whatever the amounts. (The code: a
\* Qty of 0 is read as 1 and a UnitPrice of 0 as the amount; amounts are doubles, and
\* some differences of one hundredth come out above the double 0.01.)
C26_MismatchWarnsOnly ==
    verdict # NotCalled =>
      /\ \A k \in 1..Len(PayloadLinesGiven) :
           LET line == PayloadLinesGiven[k]
           IN  (/\ line.DetailType = "SalesItemLineDetail"
                /\ line.Qty # Absent /\ line.UnitPrice # Absent /\ line.Amount # Absent)
                 => ((k - 1) \in ValueOf(verdict).warnings
                       <=> Abs(ValueOf(line.Qty) * ValueOf(line.UnitPrice)
                                 - ValueOf(line.Amount)) > 1)
      /\ ValueOf(invoiceData).Line # Absent
           => Reasons \subseteq {"Missing required field: CustomerRef"}

\* C30: in processDocument local validation cannot fail: whatever the extraction, the
\* payload transformInvoiceForQuickBooks returns, once the CustomerRef of the mapping is
\* set on it, passes validateInvoiceData, which collects no reason and throws nothing,
\* so the handler that writes "ValidationError" is never entered.
C30_LocalValidationPasses ==
    (verdict # NotCalled /\ transformedInvoiceData # NotCalled) =>
      /\ ValueOf(invoiceData).CustomerRef # Absent
      /\ ValueOf(invoiceData).Line = ValueOf(transformedInvoiceData).Line
      /\ ValueOf(verdict).errors = <<>>
      /\ ValueOf(verdict).thrown = NoError
\* a payload built from items whose amounts do not match was validated: warned of, passed
C30_Witness ==
    /\ verdict # NotCalled /\ transformedInvoiceData # NotCalled
    /\ Len(ExtractedItems) = MaxLines
    /\ ValueOf(verdict).warnings # {}
    /\ ValueOf(verdict).thrown = NoError

\* C27: a request made through a tenant's client bears that tenant's own token: the
\* token oauthClient holds when makeApiCall runs for realm R is a credential of the
\* integration of realm R, however the calls of two tenants interleave. (The code: one
\* oauthClient for all clients, and awaits between setToken and makeApiCall.)
C27_OwnTokenOnEveryCall ==
    \A t \in Tenants :
        client[t].sentWith # NoToken => client[t].sentWith.realm = client[t].config.realmId

\* C28: a call made through a client whose own token, the one persisted for its
\* integration, has run out asks for a refresh before it sends its request, whatever
\* was called before. (The code: isAccessTokenValid() is asked of the token installed by
\* the call before, another tenant's included, and only then is this.config installed.)
C28_ExpiredTokenRefreshed ==
    \A t \in Tenants :
        (client[t].pc \in {"request", "idle"} /\ client[t].ownExpired)
            => client[t].refreshed

\* C29: refreshOrSetToken never raises. A refresh or a credential write that fails is
\* swallowed: the persisted credentials stay as they were and the API method goes on to
\* its request. A refresh that succeeds and is written replaces the credentials of the
\* integration of this client's integrationId, and of no other, by the refreshed
\* tokens, the realmId as it was.
C29_RefreshNeverRaises ==
    [][\A t \in Tenants :
         /\ (client[t].pc = "refresh" /\ client'[t].pc # "refresh")
              => /\ client'[t].pc \in {"save", "request"}
                 /\ credentials' = credentials
         /\ (client[t].pc = "save" /\ client'[t].pc # "save")
              => /\ client'[t].pc = "request"
                 /\ \/ credentials' = credentials
                    \/ /\ credentials'[client[t].integrationId]
                            = [realmId |-> credentials[client[t].integrationId].realmId,
                               token |-> client[t].fresh]
                       /\ \A i \in Tenants \ {client[t].integrationId} :
                            credentials'[i] = credentials[i]
                       /\ installed' = client[t].fresh
         /\ client[t].pc = "request" => ENABLED MakeApiCall(t)]_vars
\* a refresh was written for one tenant after a refresh of the other had failed
C29_Witness ==
    \E t, u \in Tenants :
        /\ t # u
        /\ credentials[t].token.gen > 1 /\ client[t].refreshed
        /\ credentials[u].token.gen = 1 /\ client[u].refreshed /\ client[u].pc = "idle"
        /\ client[u].calls > 0

\* the run of invoice document d failed at the platform's customer lookup or creation
CustomerStepFailed(d) ==
    /\ kind[d] = "invoice" /\ Raised(d)
    /\ run[d].at \in {"findByName", "entityCreate"}

\* C31: an invoice run whose customers.findByName or customers.create failed raises
\* "Failed to create or find customer in QuickBooks"; it has created no EntityMapping,
\* no local Invoice and no line item and has issued no invoices.create, and the step
\* that fails writes no row at all: the local Customer is all the run may have added.
C31_CustomerFailureFrame ==
    /\ [](\A d \in Docs :
            CustomerStepFailed(d) =>
              /\ run[d].thrown = ErrorObj("Failed to create or find customer in QuickBooks")
              /\ ~run[d].mapped
              /\ run[d].txnId = 0 /\ run[d].i = 0
              /\ ~run[d].txnIssued)
    /\ [][\A d \in Docs :
            (/\ kind[d] = "invoice"
             /\ run[d].pc \in {"findByName", "entityCreate"}
             /\ run'[d].pc = "idle")
              => UNCHANGED <<mappings, localVars, qbVars>>]_vars
\* a customers.create that failed, after the local Customer was found or created
C31_Witness ==
    \E d \in Docs :
        /\ CustomerStepFailed(d) /\ run[d].at = "entityCreate"
        /\ \E c \in customers : c.id = run[d].localId /\ c.name = run[d].name
        /\ MappingsFor("Customer", run[d].localId) = {}

\* C32: when a receipt run has returned to its caller, every Document write it started
\* has completed: none is pending, the status is "Ready" or "MissingData" and the
\* processed files are those of this run, so that no write can still fail unseen.
\* (The code starts its three Document updates after "Extraction" without await.)
C32_WritesCompleteAtReturn ==
    \A d \in Docs :
        (kind[d] = "receipt" /\ run[d].pc = "idle" /\ run[d].result = "returned")
            => /\ pending[d] = {}
               /\ status[d] \in {"Ready", "MissingData"}
               /\ paths[d] = runs[d]

====
